---- MODULE Spec2Model ----
(***************************************************************************)
(* A model of the macro specialize_call! (src/src/macros.rs).              *)
(*                                                                         *)
(* The macro is given a generic function, an argument list, a selector     *)
(* expression and k >= 1 mapping lists.  Each mapping list is a bracketed  *)
(* list of entries (pattern => type, type, ...).  The macro expands to     *)
(*                                                                         *)
(*     loop { <one `if matches!(..) { break Some(..) }` per rule>          *)
(*            break None }                                                 *)
(*                                                                         *)
(* The model has two stages.  Generation: the authored mapping lists are   *)
(* expanded by the recursive macro arms (operators single_mapping,         *)
(* specialize_call, maybe_invoke) into the chain of if-statements, and the *)
(* turbofish of every emitted statement is checked against the number of   *)
(* type parameters of the function.  Run time: every call frame walks the  *)
(* chain statement by statement.                                           *)
(***************************************************************************)
EXTENDS Integers, Sequences, FiniteSets

VARIABLES mappings, arity, chain, phase, frame

vars == <<mappings, arity, chain, phase, frame>>

(***************************************************************************)
(* Bounds of the model.                                                    *)
(***************************************************************************)
\* at most this many mapping lists in one macro call
MaxMappings == 2
\* at most this many type arguments in the whole authored table
MaxTypeArgs == 4
\* the same two bounds for the tables on which two calls are interleaved
MaxReentrantMappings == 1
MaxReentrantTypeArgs == 3

(***************************************************************************)
(* Alphabets.                                                              *)
(***************************************************************************)
\* the values of the selector type (enum Select { A, B, C })
Select == {"A", "B", "C"}
\* the wildcard pattern
Wild == "_"
\* the patterns used by the authored tables: two literals and the wildcard
Pats == {"A", "B", Wild}
\* the values of the runtime argument
ArgVals == {1, 2}
\* the call sites' frames: two calls may be in progress at the same time
Frames == {"f1", "f2"}

None == [tag |-> "None"]
Some(r) == [tag |-> "Some", val |-> r]

(***************************************************************************)
(* Authored tables.  A type argument is an opaque token for the macro; the *)
(* token of the j-th type of the e-th entry of the m-th mapping list is    *)
(* <<m, e, j>>, so that all authored type arguments are distinct.          *)
(***************************************************************************)
RECURSIVE SeqSum(_)
SeqSum(s) == IF s = <<>> THEN 0 ELSE Head(s) + SeqSum(Tail(s))

\* the sequences of entry sizes (number of types, >= 1) of total at most w
RECURSIVE Sizes(_)
Sizes(w) ==
    {<<>>} \cup
    UNION {{<<n>> \o s : s \in Sizes(w - n)} : n \in 1..w}

\* the sequences of k such size lists of total at most w
RECURSIVE Shapes(_, _)
Shapes(k, w) ==
    IF k = 0 THEN {<<>>}
    ELSE UNION {{<<l>> \o t : t \in Shapes(k - 1, w - SeqSum(l))} : l \in Sizes(w)}

\* mapping list number m with the sizes l and the patterns ps
Author(m, l, ps) ==
    [e \in 1..Len(l) |->
        [pat |-> ps[e], types |-> [j \in 1..l[e] |-> <<m, e, j>>]]]

\* the mapping lists of the given sizes, with every choice of patterns
ListsOf(m, l) == {Author(m, l, ps) : ps \in [1..Len(l) -> Pats]}

RECURSIVE TablesOf(_, _)
TablesOf(sh, m) ==
    IF m > Len(sh) THEN {<<>>}
    ELSE UNION {{<<l>> \o t : t \in TablesOf(sh, m + 1)} : l \in ListsOf(m, sh[m])}

\* the tables of at most n mapping lists holding at most w type arguments
Tables(n, w) ==
    UNION {UNION {TablesOf(sh, 1) : sh \in Shapes(k, w)} : k \in 1..n}

(***************************************************************************)
(* Generation: the macro arms.                                             *)
(***************************************************************************)
RECURSIVE single_mapping(_, _, _, _)
RECURSIVE specialize_call(_, _, _)
RECURSIVE single_mapping_rest_first(_, _, _, _)
RECURSIVE single_mapping_empty_wild(_, _, _, _)

\* variant: the instantiation is given the first accumulated type only
maybe_invoke_first_type(acc_p, acc_t) ==
    <<[pats |-> acc_p, types |-> IF acc_t = <<>> THEN <<>> ELSE <<Head(acc_t)>>]>>

\* arm @maybe_invoke: one statement
\*   if matches!($select, ($acc_p),*) { break Some($func::<$acc_t,*>($arg,*)); }
maybe_invoke(acc_p, acc_t) == <<[pats |-> acc_p, types |-> acc_t]>>

\* variant: the two expansions of the first arm are emitted in the other order
single_mapping_rest_first(acc_p, acc_t, list, rest) ==
    IF list = <<>> THEN <<>>
    ELSE single_mapping_rest_first(acc_p, acc_t, Tail(list), rest)
         \o specialize_call(Append(acc_p, Head(list).pat),
                            acc_t \o Head(list).types, rest)

\* variant: an empty mapping list stands for a wildcard without types
single_mapping_empty_wild(acc_p, acc_t, list, rest) ==
    IF list = <<>> THEN specialize_call(Append(acc_p, Wild), acc_t, rest)
    ELSE specialize_call(Append(acc_p, Head(list).pat),
                         acc_t \o Head(list).types, rest)
         \o (IF Tail(list) = <<>> THEN <<>>
             ELSE single_mapping_empty_wild(acc_p, acc_t, Tail(list), rest))

\* arms @single_mapping: the first entry of the list, followed by the same
\* arm on the rest of the list; the empty list emits nothing
single_mapping(acc_p, acc_t, list, rest) ==
    IF list = <<>> THEN <<>>
    ELSE specialize_call(Append(acc_p, Head(list).pat),
                         acc_t \o Head(list).types, rest)
         \o single_mapping(acc_p, acc_t, Tail(list), rest)

\* arms @specialize_call: hand the first remaining mapping list to
\* @single_mapping; with no mapping list left, emit the statement
specialize_call(acc_p, acc_t, ms) ==
    IF ms = <<>> THEN maybe_invoke(acc_p, acc_t)
    ELSE single_mapping(acc_p, acc_t, Head(ms), Tail(ms))

\* the entry arm: the body of the loop, before the final `break None`
loop_body(ms) == specialize_call(<<>>, <<>>, ms)

\* variant: missing type arguments are tolerated
turbofish_at_most(types, n) == Len(types) <= n

\* $func::<$($acc_t),*> names an instantiation only if it supplies as many
\* type arguments as the function declares type parameters
turbofish_ok(types, n) == Len(types) = n

(***************************************************************************)
(* Run time.                                                               *)
(***************************************************************************)
\* variant: only the first component of the tuple is compared
matches_head(sel, pats) ==
    /\ Len(sel) = Len(pats)
    /\ pats[1] = Wild \/ pats[1] = sel[1]

\* matches!(sel, (p1, ..., pk)): a literal matches itself, the wildcard all
matches(sel, pats) ==
    /\ Len(sel) = Len(pats)
    /\ \A i \in 1..Len(pats) : pats[i] = Wild \/ pats[i] = sel[i]

\* the generic function: its result identifies the instantiation and the
\* argument it was called with
func(types, arg) == [tn |-> types, arg |-> arg]

\* variant: the loop resumes after the statement at which another call stopped
loop_entry_resume(f) ==
    LET stopped == {frame[g].idx + 1 : g \in {h \in Frames \ {f} : frame[h].pc = "done"}}
                   \cup {1}
    IN CHOOSE n \in stopped : \A o \in stopped : o <= n

\* the statement at which a call enters the loop
loop_entry(f) == 1

\* variant: the last statement is taken when nothing matched
after_test_default_last(f, i, matched) ==
    IF matched \/ i = Len(chain) THEN [pc |-> "invoke", idx |-> i]
    ELSE [pc |-> "loop", idx |-> i + 1]

\* variant: a later matching statement is preferred to an earlier one
after_test_last_match(f, i, matched) ==
    IF matched /\ ~(\E j \in (i + 1)..Len(chain) :
                       \A c \in 1..Len(chain[j].pats) :
                          chain[j].pats[c] \in {Wild, frame[f].selector[c]})
    THEN [pc |-> "invoke", idx |-> i]
    ELSE [pc |-> "loop", idx |-> i + 1]

\* where control goes after the test of statement i
after_test(f, i, matched) ==
    IF matched THEN [pc |-> "invoke", idx |-> i]
    ELSE [pc |-> "loop", idx |-> i + 1]

\* variant: the loop is not left after the call
after_invoke_no_break(i) == [pc |-> "loop", idx |-> i + 1]

\* `break`: the loop is left after the call of the instantiation
after_invoke(i) == [pc |-> "done", idx |-> i]

\* variant: the selector is evaluated once and its value kept
eval_select_hoisted(f) == 1

\* the number of evaluations of $select after one more matches!($select, ..)
eval_select(f) == frame[f].selEvals + 1

Idle ==
    [pc |-> "idle", idx |-> 0, selector |-> <<>>, arg |-> 0,
     selEvals |-> 0, argEvals |-> 0, tested |-> {}, invoked |-> <<>>,
     outcome |-> None]

\* a call site as authored: its mapping lists and its function
Authored(n, w) ==
    /\ mappings \in Tables(n, w)
    /\ arity \in 1..w
    /\ chain = <<>>
    /\ phase = "authored"
    /\ frame = [f \in Frames |-> Idle]

Init == Authored(MaxMappings, MaxTypeArgs)

InitReentrant == Authored(MaxReentrantMappings, MaxReentrantTypeArgs)

\* macro expansion of the call site
Expand ==
    /\ phase = "authored"
    /\ chain' = loop_body(mappings)
    /\ phase' = "expanded"
    /\ UNCHANGED <<mappings, arity, frame>>

\* type checking of the expansion: every emitted statement is checked,
\* whether or not it will ever be executed
TypeCheck ==
    /\ phase = "expanded"
    /\ phase' = IF \A i \in 1..Len(chain) : turbofish_ok(chain[i].types, arity)
                THEN "ready" ELSE "rejected"
    /\ UNCHANGED <<mappings, arity, chain, frame>>

\* control reaches the call site: `loop {`
Call(f) ==
    /\ phase = "ready"
    /\ frame[f].pc = "idle"
    /\ \E sel \in [1..Len(mappings) -> Select], a \in ArgVals :
          frame' = [frame EXCEPT ![f] =
                       [Idle EXCEPT !.pc = "loop", !.idx = loop_entry(f),
                                    !.selector = sel, !.arg = a]]
    /\ UNCHANGED <<mappings, arity, chain, phase>>

\* `if matches!($select, ...)`: the selector expression is evaluated and
\* tested against the statement's pattern
MatchStep(f) ==
    /\ frame[f].pc = "loop"
    /\ frame[f].idx <= Len(chain)
    /\ LET i == frame[f].idx
           nxt == after_test(f, i, matches(frame[f].selector, chain[i].pats))
       IN frame' = [frame EXCEPT ![f].selEvals = eval_select(f),
                                 ![f].tested = @ \cup {i},
                                 ![f].pc = nxt.pc,
                                 ![f].idx = nxt.idx]
    /\ UNCHANGED <<mappings, arity, chain, phase>>

\* `break Some($func::<...>($arg))`: the arguments are evaluated, the
\* instantiation is called and the loop is left
Invoke(f) ==
    /\ frame[f].pc = "invoke"
    /\ LET i == frame[f].idx
           nxt == after_invoke(i)
       IN frame' = [frame EXCEPT ![f].argEvals = @ + 1,
                                 ![f].invoked = Append(@, i),
                                 ![f].outcome = Some(func(chain[i].types, frame[f].arg)),
                                 ![f].pc = nxt.pc,
                                 ![f].idx = nxt.idx]
    /\ UNCHANGED <<mappings, arity, chain, phase>>

\* `break None`: the end of the loop body is reached
BreakNone(f) ==
    /\ frame[f].pc = "loop"
    /\ frame[f].idx > Len(chain)
    /\ frame' = [frame EXCEPT ![f].outcome = None, ![f].pc = "done"]
    /\ UNCHANGED <<mappings, arity, chain, phase>>

\* the caller has consumed the value of the loop expression
Return(f) ==
    /\ frame[f].pc = "done"
    /\ frame' = [frame EXCEPT ![f] = Idle]
    /\ UNCHANGED <<mappings, arity, chain, phase>>

Step(f) ==
    \/ Call(f)
    \/ MatchStep(f)
    \/ Invoke(f)
    \/ BreakNone(f)
    \/ Return(f)

\* one call at a time
Next ==
    \/ Expand
    \/ TypeCheck
    \/ Step("f1")

Spec == Init /\ [][Next]_vars

\* two call sites' calls interleaved
NextReentrant ==
    \/ Expand
    \/ TypeCheck
    \/ \E f \in Frames : Step(f)

SpecReentrant == InitReentrant /\ [][NextReentrant]_vars

TypeOK ==
    /\ phase \in {"authored", "expanded", "rejected", "ready"}
    /\ \A f \in Frames : frame[f].pc \in {"idle", "loop", "invoke", "done"}

(***************************************************************************)
(* Vocabulary of the properties.  These definitions state what the table   *)
(* means; they are independent of the operators that model the macro.      *)
(***************************************************************************)
\* the selector value sel satisfies the tuple of patterns pats
Covers(sel, pats) == \A c \in DOMAIN pats : pats[c] \in {Wild, sel[c]}

\* the flat rules that cover sel, and the first of them
Covering(sel) == {i \in 1..Len(chain) : Covers(sel, chain[i].pats)}
FirstCovering(sel) == CHOOSE i \in Covering(sel) : \A j \in Covering(sel) : i <= j

\* the frames in which a call is in progress or has just completed
Active == {f \in Frames : frame[f].pc # "idle"}
Done == {f \in Frames : frame[f].pc = "done"}

\* the product of the lengths of the mapping lists m, m+1, ...
RECURSIVE Prod(_)
Prod(m) == IF m > Len(mappings) THEN 1 ELSE Len(mappings[m]) * Prod(m + 1)

NumRules == Prod(1)

\* the entry of mapping list m chosen by the r-th combination, the
\* combinations being numbered lexicographically, list 1 most significant
Choice(r, m) == mappings[m][(((r - 1) \div Prod(m + 1)) % Len(mappings[m])) + 1]

RECURSIVE ChoiceTypes(_, _)
ChoiceTypes(r, m) ==
    IF m > Len(mappings) THEN <<>> ELSE Choice(r, m).types \o ChoiceTypes(r, m + 1)

ChoicePats(r) == [m \in 1..Len(mappings) |-> Choice(r, m).pat]

(***************************************************************************)
(* C1: when a call completes and its selector satisfies the pattern of     *)
(* rule i and of no earlier rule, the outcome is Some of the result of the *)
(* instantiation with rule i's type arguments on the call's argument.      *)
(***************************************************************************)
C1_FirstMatchInvoked ==
    \A f \in Done : \A i \in 1..Len(chain) :
        (/\ Covers(frame[f].selector, chain[i].pats)
         /\ \A j \in 1..(i - 1) : ~Covers(frame[f].selector, chain[j].pats))
        => frame[f].outcome = Some([tn |-> chain[i].types, arg |-> frame[f].arg])

\* the table [(A => T), (B => T')] of the documentation, called with B
C1_Witness ==
    /\ Len(mappings) = 1 /\ Len(mappings[1]) = 2
    /\ mappings[1][1].pat = "A" /\ mappings[1][2].pat = "B"
    /\ frame["f1"].pc = "done"
    /\ frame["f1"].selector = <<"B">>
    /\ frame["f1"].outcome = Some([tn |-> <<<<1, 2, 1>>>>, arg |-> 2])

(***************************************************************************)
(* C2: in a call whose selector satisfies no rule's pattern the arguments  *)
(* are never evaluated, no instantiation is called, and the outcome is     *)
(* None.                                                                   *)
(***************************************************************************)
C2_NoMatchIsNone ==
    \A f \in Active :
        Covering(frame[f].selector) = {}
        => /\ frame[f].argEvals = 0
           /\ frame[f].invoked = <<>>
           /\ frame[f].pc = "done" => frame[f].outcome = None

\* the documentation's third call: selector C, rules for A and B
C2_Witness ==
    /\ Len(chain) = 2
    /\ frame["f1"].pc = "done"
    /\ frame["f1"].selector = <<"C">>
    /\ Covering(<<"C">>) = {}
    /\ frame["f1"].tested = {1, 2}
    /\ frame["f1"].outcome = None

(***************************************************************************)
(* C3: in every call the arguments are evaluated at most once, only by the *)
(* one call of the instantiation of the first rule the selector satisfies; *)
(* no rule after that one is tested or invoked.                            *)
(***************************************************************************)
C3_AtMostOnceShortCircuit ==
    \A f \in Frames :
        /\ frame[f].argEvals <= 1
        /\ frame[f].argEvals = Len(frame[f].invoked)
        /\ frame[f].invoked # <<>> =>
              /\ frame[f].invoked[1] = FirstCovering(frame[f].selector)
              /\ frame[f].tested = 1..frame[f].invoked[1]

\* a call that stopped at the first of three rules although a later rule
\* is satisfied too
C3_Witness ==
    /\ Len(chain) >= 3
    /\ frame["f1"].pc = "done"
    /\ frame["f1"].invoked = <<1>>
    /\ Cardinality(Covering(frame["f1"].selector)) >= 2
    /\ frame["f1"].argEvals = 1

(***************************************************************************)
(* C4, as claimed: an entry (P => T1, ..., Tk) of a single mapping list    *)
(* becomes the k flat rules (P, T1), ..., (P, Tk), and a call whose        *)
(* selector satisfies P calls the instantiation for T1 alone.              *)
(***************************************************************************)
RECURSIVE PerType(_)
PerType(list) ==
    IF list = <<>> THEN <<>>
    ELSE [j \in 1..Len(Head(list).types) |->
             [pats |-> <<Head(list).pat>>, types |-> <<Head(list).types[j]>>]]
         \o PerType(Tail(list))

C4_OneRulePerType ==
    (phase # "authored" /\ Len(mappings) = 1)
    => /\ chain = PerType(mappings[1])
       /\ \A f \in Done :
             Covering(frame[f].selector) # {}
             => Len(frame[f].outcome.val.tn) = 1

(***************************************************************************)
(* C4, amended: an entry (P => T1, ..., Tk) of a single mapping list       *)
(* becomes exactly one flat rule, guarded by P, whose type-argument list   *)
(* is T1, ..., Tk in declared order; a call resolved to that entry calls   *)
(* the one instantiation with all of T1, ..., Tk.                          *)
(***************************************************************************)
C4_OneRulePerEntry ==
    (phase # "authored" /\ Len(mappings) = 1)
    => /\ Len(chain) = Len(mappings[1])
       /\ \A e \in 1..Len(chain) :
             chain[e] = [pats |-> <<mappings[1][e].pat>>,
                         types |-> mappings[1][e].types]
       /\ \A f \in Done :
             frame[f].invoked # <<>>
             => frame[f].outcome =
                   Some([tn |-> mappings[1][frame[f].invoked[1]].types,
                         arg |-> frame[f].arg])

\* a completed call resolved to an entry with two type arguments
C4_Witness ==
    /\ Len(mappings) = 1
    /\ frame["f1"].pc = "done"
    /\ frame["f1"].invoked # <<>>
    /\ Len(mappings[1][frame["f1"].invoked[1]].types) = 2
    /\ Len(frame["f1"].outcome.val.tn) = 2

(***************************************************************************)
(* C5: a rule shadowed by an earlier rule (every selector value that       *)
(* satisfies it satisfies the earlier one, as with an identical pattern or *)
(* an earlier wildcard) is never invoked; the call resolves to the         *)
(* earliest satisfied rule.                                                *)
(***************************************************************************)
Shadowed(j) ==
    \E i \in 1..(j - 1) :
        \A s \in [1..Len(mappings) -> Select] :
            Covers(s, chain[j].pats) => Covers(s, chain[i].pats)

C5_ShadowedNeverInvoked ==
    \A f \in Frames : \A n \in DOMAIN frame[f].invoked :
        /\ ~Shadowed(frame[f].invoked[n])
        /\ \A j \in Covering(frame[f].selector) : frame[f].invoked[n] <= j

\* a wildcard rule before a literal rule, called with the literal
C5_Witness ==
    /\ Len(chain) >= 2
    /\ chain[1].pats = <<Wild>> /\ chain[2].pats = <<"A">>
    /\ Shadowed(2)
    /\ frame["f1"].pc = "done"
    /\ frame["f1"].selector = <<"A">>
    /\ frame["f1"].invoked = <<1>>

(***************************************************************************)
(* C6: when a mapping list is empty, every call returns None without       *)
(* testing a rule, calling an instantiation or evaluating the arguments.   *)
(***************************************************************************)
EmptyTable == \E m \in 1..Len(mappings) : mappings[m] = <<>>

C6_EmptyTableIsNone ==
    EmptyTable =>
        /\ phase # "authored" => chain = <<>>
        /\ \A f \in Active :
              /\ frame[f].argEvals = 0
              /\ frame[f].invoked = <<>>
              /\ frame[f].pc = "done" => frame[f].outcome = None

\* a completed call on the table []
C6_Witness ==
    /\ mappings = <<<<>>>>
    /\ frame["f1"].pc = "done"
    /\ frame["f1"].outcome = None

(***************************************************************************)
(* C7: two completed calls, made one after the other or interleaved, with  *)
(* the same selector value and the same argument value have the same       *)
(* outcome, and no step of a call changes the table.                       *)
(***************************************************************************)
SameOutcome ==
    \A f, g \in Done :
        (frame[f].selector = frame[g].selector /\ frame[f].arg = frame[g].arg)
        => frame[f].outcome = frame[g].outcome

TableFrozen == phase = "ready" => (chain' = chain /\ mappings' = mappings /\ phase' = phase)

C7_Deterministic == []SameOutcome /\ [][TableFrozen]_vars

\* two completed calls with the same inputs, resolved to the second rule
C7_Witness ==
    /\ Done = Frames
    /\ frame["f1"].selector = frame["f2"].selector
    /\ frame["f1"].arg = frame["f2"].arg
    /\ frame["f1"].invoked = <<2>>
    /\ frame["f2"].invoked = <<2>>

(***************************************************************************)
(* C8: when some flat rule of the table has a number of type arguments     *)
(* other than the number of type parameters of the function, generation    *)
(* ends rejected, and no call ever tests or invokes a rule of the table.   *)
(***************************************************************************)
ArityMismatch == \E r \in 1..NumRules : Len(ChoiceTypes(r, 1)) # arity

C8_ArityRejected ==
    ArityMismatch =>
        /\ phase \in {"authored", "expanded", "rejected"}
        /\ \A f \in Frames : frame[f] = Idle

\* a table rejected for its second rule only
C8_Witness ==
    /\ phase = "rejected"
    /\ ArityMismatch
    /\ Len(chain) >= 2
    /\ Len(chain[1].types) = arity

(***************************************************************************)
(* C9: the generated chain is the cartesian product of the mapping lists   *)
(* in lexicographic order, the first list most significant: its r-th       *)
(* statement tests the tuple of the chosen entries' patterns and calls the *)
(* function with the concatenation of the chosen entries' type lists; it   *)
(* has as many statements as the product of the lists' lengths.            *)
(***************************************************************************)
C9_CartesianProduct ==
    phase # "authored" =>
        /\ Len(chain) = NumRules
        /\ \A r \in 1..NumRules :
              chain[r] = [pats |-> ChoicePats(r), types |-> ChoiceTypes(r, 1)]

\* two mapping lists of two entries each: four statements
C9_Witness ==
    /\ phase = "expanded"
    /\ Len(mappings) = 2
    /\ Len(mappings[1]) = 2 /\ Len(mappings[2]) = 2
    /\ Len(chain) = 4
    /\ chain[2].types = <<<<1, 1, 1>>, <<2, 2, 1>>>>
    /\ chain[3].types = <<<<1, 2, 1>>, <<2, 1, 1>>>>

(***************************************************************************)
(* C10: the selector expression is evaluated once per tested rule: a       *)
(* completed call has evaluated it as many times as the position of the    *)
(* first satisfied rule, or as many times as there are rules when none is  *)
(* satisfied; no evaluation of the selector follows the evaluation of the  *)
(* arguments.                                                              *)
(***************************************************************************)
SelectorEvalCount ==
    \A f \in Frames :
        /\ frame[f].selEvals = Cardinality(frame[f].tested)
        /\ f \in Done =>
              frame[f].selEvals =
                 IF Covering(frame[f].selector) = {} THEN Len(chain)
                 ELSE FirstCovering(frame[f].selector)

SelectorBeforeArgs ==
    \A f \in Frames :
        (frame'[f].argEvals >= 1 /\ frame'[f].pc # "idle" /\ frame[f].pc # "idle")
        => (/\ frame'[f].selEvals = frame[f].selEvals
            /\ frame[f].selEvals >= 1)

C10_SelectorPerRule == []SelectorEvalCount /\ [][SelectorBeforeArgs]_vars

\* a call that matched at the third rule after three evaluations
C10_Witness ==
    /\ frame["f1"].pc = "done"
    /\ frame["f1"].invoked = <<3>>
    /\ frame["f1"].selEvals = 3
====
